---- MODULE Spec2Model ----
(***************************************************************************)
(* A model of sploosh's time-triggered actuation engine: time_until,       *)
(* TimeFuture (shared state, poll, timer task), DailyTimer::run, the       *)
(* bounded command channel, GpioManager::run, the new_daily_form handler   *)
(* and the IntervalSettings constructors.                                  *)
(*                                                                         *)
(* Times are integers in milliseconds.  A time-of-day is in 0..Day-1; the  *)
(* wall clock is an absolute instant whose time-of-day is clock % Day.     *)
(***************************************************************************)
EXTENDS Integers, Sequences, FiniteSets, TLC

\* ------------------------------------------------------------------ bounds

\* Number of grid points of the time-of-day inputs of TimeSpec.
TimeGrid == 6
\* Controller slots: the controllers a run of the system may hold.
MaxControllers == 2
\* Send attempts (on and off commands) one controller makes before the model
\* stops following it.
MaxCmds == 3
\* Scheduling delays (clock ticks of 1 ms taken while some task is runnable).
MaxDelay == 1
\* Schedule requests handled by new_daily_form in one run.
MaxRequests == 1
\* Send attempts ChannelSpec follows its controller for: one more than the
\* channel holds.
MaxBurst == 33

\* --------------------------------------------------------- time arithmetic

\* Duration::new(86400, 0): 24 h, in milliseconds.
Day == 86400 * 1000

Secs(n) == n * 1000

\* local_time(): the time-of-day of the wall clock.
local_time(clk) == clk % Day

\* NaiveTime - NaiveTime: a signed duration in (-24h, 24h).
time_diff(target, now) == target - now

time_until_NoWrap(target, now) == time_diff(target, now)

time_until_LeqZero(target, now) ==
    LET diff == time_diff(target, now)
    IN  IF diff <= 0 THEN Day + diff ELSE diff

\* time_until(target), with the clock read made explicit.
time_until(target, now) ==
    LET diff == time_diff(target, now)
    IN  IF diff < 0 THEN Day + diff ELSE diff

\* chrono's Duration::to_std: an error for a negative duration.
to_std(d) == IF d < 0 THEN "OutOfRangeError" ELSE "Ok"

\* NaiveTime + Duration: time-of-day arithmetic wraps modulo 24 h.
time_add(t, d) == (t + d) % Day

\* ------------------------------------------------------------ window values

\* Option<NaiveTime>::None.
NoTime == 0 - 1

Digits == <<"0", "1", "2", "3", "4", "5", "6", "7", "8", "9">>

IsDigit(ch) == \E i \in 1..10 : Digits[i] = ch

DigitVal(ch) == (CHOOSE i \in 1..10 : Digits[i] = ch) - 1

\* How many leading digits (at most two) the text s has from position i.
NumWidth(s, i) ==
    IF i <= Len(s) /\ IsDigit(s[i])
    THEN IF i + 1 <= Len(s) /\ IsDigit(s[i + 1]) THEN 2 ELSE 1
    ELSE 0

NumVal(s, i, w) ==
    IF w = 2 THEN 10 * DigitVal(s[i]) + DigitVal(s[i + 1]) ELSE DigitVal(s[i])

\* NaiveTime::parse_from_str(s, "%H:%M"): an hour of one or two digits, a
\* colon, a minute of one or two digits and nothing after; the hour below 24
\* and the minute below 60.  NoTime stands for Err(ParseError).
parse_from_str(s) ==
    LET hw == NumWidth(s, 1)
        mw == NumWidth(s, hw + 2)
    IN  IF hw = 0 \/ hw + 1 > Len(s) \/ s[hw + 1] # ":" \/ mw = 0
           \/ Len(s) # hw + 1 + mw
        THEN NoTime
        ELSE LET h == NumVal(s, 1, hw)
                 m == NumVal(s, hw + 2, mw)
             IN  IF h > 23 \/ m > 59 THEN NoTime
                 ELSE Secs(3600 * h + 60 * m)

\* A value of IntervalSettings, or the way a constructor failed.  tag is "Ok",
\* "InvalidDuration", "TimeParsing" or "Panic" (std's Duration subtraction
\* overflowing); durations are in milliseconds.
Settings(on, off, st) ==
    [tag |-> "Ok", duration_on |-> on, duration_off |-> off, start_time |-> st]

Failure(t) ==
    [tag |-> t, duration_on |-> 0, duration_off |-> 0, start_time |-> NoTime]

\* IntervalSettings::new
IntervalSettings_new(duration_on, duration_off, start_time) ==
    Settings(duration_on, duration_off, start_time)

\* #[derive(Default)] on IntervalSettings
IntervalSettings_default == Settings(0, 0, NoTime)

once_daily_Unchecked(duration_on, start_time) ==
    IF Day < duration_on THEN Failure("Panic")
    ELSE Settings(duration_on, Day - duration_on, start_time)

\* IntervalSettings::once_daily
once_daily(duration_on, start_time) ==
    IF duration_on = 0 THEN Failure("InvalidDuration")
    ELSE IF Day < duration_on THEN Failure("Panic")
    ELSE Settings(duration_on, Day - duration_on, start_time)

\* IntervalSettings::daily_now, with the clock read made explicit.
daily_now(duration_on, now) == once_daily(duration_on, now)

\* IntervalSettings::from_newdaily: n.duration_on is in whole seconds, and
\* n.start_time is the text of the form field.
from_newdaily(n) ==
    LET duration_on == Secs(n.duration_on)
        start_time == parse_from_str(n.start_time)
    IN  IF start_time = NoTime THEN Failure("TimeParsing")
        ELSE once_daily(duration_on, start_time)

\* -------------------------------------------------------------------- state

VARIABLES
    clock,       \* the wall clock: an absolute instant, in ms
    delays,      \* scheduling delays taken so far
    ctl,         \* per controller: the task spawned by DailyTimer::run
    fut,         \* per controller: the TimeSharedState of the TimeFuture it awaits
    timer,       \* per controller: the timer task spawned by TimeFuture::new
    orphans,     \* per controller: timer tasks still running when the next was spawned
    cmds,        \* per controller: the tx.send calls that returned, in order
    chan,        \* the mpsc channel's pending messages
    rx,          \* the Receiver: "created" (held by GpioManager), "running", "dropped"
    dispatched,  \* the messages GpioManager::run has received, in order
    reqs,        \* the schedule requests new_daily_form has answered
    db,          \* the IntervalTimers stored by insert_interval_timer
    tu,          \* TimeSpec: one evaluation of time_until
    win,         \* WindowSpec: the last value a constructor returned
    enq,         \* the messages the channel accepted, numbered in order of arrival
    outputs,     \* GpioManager.outputs: the channels with a cached handle
    hw,          \* the open and set_value calls made on the hardware, in order,
                 \* each with the arrival number (id) of its message
    gpio_tx,     \* the Sender GpioManager::new returned is still held
    cmdLimit     \* the send attempts of one controller the run follows

\* The actor's side of the channel and the model's bookkeeping.
actorVars == <<enq, outputs, hw, gpio_tx, cmdLimit>>

sysVars == <<clock, delays, ctl, fut, timer, orphans, cmds, chan, rx, dispatched,
             reqs, db, enq, outputs, hw, gpio_tx, cmdLimit>>

pureVars == <<tu, win>>

vars == <<clock, delays, ctl, fut, timer, orphans, cmds, chan, rx, dispatched,
          reqs, db, tu, win, enq, outputs, hw, gpio_tx, cmdLimit>>

\* mpsc::channel(32)
Capacity == 32

Controllers == 1..MaxControllers

\* kind tells the task of DailyTimer::run ("daily") from a call of run_timer
\* ("oneshot"); until is the end of the sleep a run_timer task is in.
NoCtl ==
    [pc |-> "absent", phase |-> "on", start_time |-> 0, stop_time |-> 0,
     output |-> 0, value |-> FALSE, duration |-> 0, created |-> 0,
     live |-> FALSE, notified |-> FALSE, kind |-> "daily", until |-> 0]

\* A slot no controller is created in.
Unused == [NoCtl EXCEPT !.pc = "unused"]

\* A controller has been created in the slot.
Present(k) == k.pc \notin {"absent", "unused"}

NoFut == [completed |-> FALSE, waker |-> FALSE, mutex |-> "free"]

NoTimer == [pc |-> "none", target |-> 0, deadline |-> 0, created |-> 0]

NoTu == [target |-> 0, now |-> 0, result |-> 0, std |-> "Ok", done |-> FALSE]

NoWin == [by |-> "none", on |-> 0, value |-> Failure("none")]

Noon == Secs(12 * 3600)

\* The instants a run of the system may start at: noon, and one second before
\* midnight.
InitClocks == {Noon, Day - Secs(1)}

\* After GpioManager::new and before any request.  One slot is free: Spec
\* follows a single controller, its timer tasks, the channel and the actor.
SysInit ==
    /\ clock \in InitClocks
    /\ delays = 0
    /\ ctl = [c \in Controllers |-> IF c = 1 THEN NoCtl ELSE Unused]
    /\ fut = [c \in Controllers |-> NoFut]
    /\ timer = [c \in Controllers |-> NoTimer]
    /\ orphans = [c \in Controllers |-> 0]
    /\ cmds = [c \in Controllers |-> <<>>]
    /\ chan = <<>>
    /\ rx = "created"
    /\ dispatched = <<>>
    /\ reqs = <<>>
    /\ db = {}
    /\ enq = <<>>
    /\ outputs = {}
    /\ hw = <<>>
    /\ gpio_tx = TRUE
    /\ cmdLimit = MaxCmds

PureIdle == tu = NoTu /\ win = NoWin

Init == SysInit /\ PureIdle

\* --------------------------------------------------------------- TimeFuture

\* Mutex::lock on the shared state: the caller proceeds when no one holds it.
lock_NoMutex(st) == TRUE

lock(st) == st.mutex = "free"

acquire(st, who) == IF st.mutex = "free" THEN who ELSE st.mutex

release(st, who) == IF st.mutex = who THEN "free" ELSE st.mutex

poll_result_Stale(st) == "pending"

poll_result_Eager(st) == "ready"

\* TimeFuture::poll's test of the flag: Poll::Ready or Poll::Pending.
poll_result(st) == IF st.completed THEN "ready" ELSE "pending"

wait_target_FromNow(k) ==
    IF k.phase = "on" THEN k.start_time ELSE time_add(local_time(clock), k.duration)

\* The target of the wait a controller is in.
wait_target(k) == IF k.phase = "on" THEN k.start_time ELSE k.stop_time

\* TimeFuture::new(time): a fresh shared state, and the timer task spawned.
TimeFuture_new(c) ==
    /\ ctl[c].pc = "new"
    /\ Len(cmds[c]) < cmdLimit
    /\ fut' = [fut EXCEPT ![c] = NoFut]
    /\ timer' = [timer EXCEPT ![c] =
                    [pc |-> "spawned", target |-> wait_target(ctl[c]), deadline |-> 0,
                     created |-> clock]]
    /\ orphans' = [orphans EXCEPT ![c] =
                    IF timer[c].pc \in {"none", "done"} THEN @ ELSE @ + 1]
    /\ ctl' = [ctl EXCEPT ![c].pc = "poll"]
    /\ UNCHANGED <<clock, delays, cmds, chan, rx, dispatched, reqs, db, tu, win, actorVars>>

\* TimeFuture::poll, first half: take the lock and test completed.
TimeFuture_poll(c) ==
    /\ ctl[c].pc = "poll"
    /\ lock(fut[c])
    /\ fut' = [fut EXCEPT ![c].mutex = acquire(fut[c], "poll")]
    /\ ctl' = [ctl EXCEPT ![c].pc = poll_result(fut[c])]
    /\ UNCHANGED <<clock, delays, timer, orphans, cmds, chan, rx, dispatched,
                   reqs, db, tu, win, actorVars>>

\* TimeFuture::poll, second half: Pending stores the waker; the guard is
\* dropped on return.  A task that returned Pending is parked until woken.
poll_return(c) ==
    /\ ctl[c].pc \in {"ready", "pending"}
    /\ fut' = [fut EXCEPT ![c].waker = IF ctl[c].pc = "pending" THEN TRUE ELSE @,
                          ![c].mutex = release(fut[c], "poll")]
    /\ ctl' = [ctl EXCEPT ![c].pc = IF ctl[c].pc = "pending" THEN "parked" ELSE "send"]
    /\ UNCHANGED <<clock, delays, timer, orphans, cmds, chan, rx, dispatched,
                   reqs, db, tu, win, actorVars>>

\* The runtime polls a parked task again once its waker was woken.
resume(c) ==
    /\ ctl[c].pc = "parked"
    /\ ctl[c].notified
    /\ ctl' = [ctl EXCEPT ![c].pc = "poll", ![c].notified = FALSE]
    /\ UNCHANGED <<clock, delays, fut, timer, orphans, cmds, chan, rx, dispatched,
                   reqs, db, tu, win, actorVars>>

\* The timer task reads the clock: sleep_time = time_until(time), and
\* sleep_time.to_std().unwrap() panics on a negative duration.
timer_start(c) ==
    /\ timer[c].pc = "spawned"
    /\ LET sleep_time == time_until(timer[c].target, local_time(clock))
       IN  timer' = [timer EXCEPT ![c].pc = IF to_std(sleep_time) # "Ok" THEN "panicked"
                                            ELSE "sleeping",
                                  ![c].deadline = clock + sleep_time]
    /\ UNCHANGED <<clock, delays, ctl, fut, orphans, cmds, chan, rx, dispatched,
                   reqs, db, tu, win, actorVars>>

elapsed_Early(t) == TRUE

\* sleep(..).await returns: not before the duration has passed.
elapsed(t) == t.deadline <= clock

\* After the sleep the timer task takes the lock and sets completed.
timer_complete(c) ==
    /\ timer[c].pc = "sleeping"
    /\ elapsed(timer[c])
    /\ lock(fut[c])
    /\ fut' = [fut EXCEPT ![c].mutex = acquire(fut[c], "timer"),
                          ![c].completed = TRUE]
    /\ timer' = [timer EXCEPT ![c].pc = "locked"]
    /\ UNCHANGED <<clock, delays, ctl, orphans, cmds, chan, rx, dispatched,
                   reqs, db, tu, win, actorVars>>

wake_Forgotten(st, k) == k.notified

\* waker.take() and wake(): the task's notification after the timer's wake.
wake(st, k) == IF st.waker THEN TRUE ELSE k.notified

\* Still holding the lock, the timer task takes the waker, wakes it, and ends.
timer_wake(c) ==
    /\ timer[c].pc = "locked"
    /\ ctl' = [ctl EXCEPT ![c].notified = wake(fut[c], ctl[c])]
    /\ fut' = [fut EXCEPT ![c].waker = FALSE,
                          ![c].mutex = release(fut[c], "timer")]
    /\ timer' = [timer EXCEPT ![c].pc = "done"]
    /\ UNCHANGED <<clock, delays, orphans, cmds, chan, rx, dispatched,
                   reqs, db, tu, win, actorVars>>

\* --------------------------------------------------------------- DailyTimer

\* The on-command (self.msg) and the off-command built from it.
msg(k) == [output |-> k.output, value |-> k.value]

off_msg_SameValue(k) == [output |-> k.output, value |-> k.value]

off_msg(k) == [output |-> k.output, value |-> ~k.value]

phase_msg(k) == IF k.phase = "on" THEN msg(k) ELSE off_msg(k)

next_phase(p) == IF p = "on" THEN "off" ELSE "on"

after_send_Propagate(ok) == IF ok THEN "new" ELSE "stopped"

\* let _ = tx.send(..).await.map_err(|e| error!(..)): the result is dropped
\* and the loop goes on to the next TimeFuture either way.
after_send(ok) == "new"

\* DailyTimer::new(time, msg, duration, tx).run(): the controller's task.
run(time, output, value, duration) ==
    [pc |-> "new", phase |-> "on", start_time |-> time,
     stop_time |-> time_add(time, duration), output |-> output, value |-> value,
     duration |-> duration, created |-> clock, live |-> rx = "running",
     notified |-> FALSE, kind |-> "daily", until |-> 0]

\* run_timer(tx, output, value, time, duration), spawned as a task: it waits
\* for time, sends the command, sleeps for duration and sends the opposite.
run_timer(time, output, value, duration) ==
    [pc |-> "new", phase |-> "on", start_time |-> time,
     stop_time |-> time_add(time, duration), output |-> output, value |-> value,
     duration |-> duration, created |-> clock, live |-> rx = "running",
     notified |-> FALSE, kind |-> "oneshot", until |-> 0]

\* Where run_timer goes after a send: each `?` returns on an error (a failed
\* send, a negative duration); after the first send it sleeps, after the
\* second it returns Ok.
run_timer_after_send(k, ok) ==
    IF k.phase = "on" /\ ok /\ to_std(k.duration) = "Ok" THEN "sleep" ELSE "finished"

\* The Receiver is gone: dropped with the GpioManager, or with the actor task
\* when its loop ended.
Closed == rx \in {"dropped", "exited"}

has_room_Unbounded(q) == TRUE

\* The channel's semaphore has a permit left.
has_room(q) == Len(q) < Capacity

\* tx.send(msg).await: an error once the Receiver is gone; otherwise the
\* message is queued, the task waiting while the channel is full.
send(c) ==
    /\ ctl[c].pc = "send"
    /\ Closed \/ has_room(chan)
    /\ LET ok == ~Closed
           m == phase_msg(ctl[c])
           queued == [output |-> m.output, value |-> m.value, from |-> c,
                      seq |-> Len(enq) + 1]
       IN  /\ chan' = IF ok THEN Append(chan, queued) ELSE chan
           /\ enq' = IF ok THEN Append(enq, queued) ELSE enq
           /\ cmds' = [cmds EXCEPT ![c] =
                          Append(@, [value |-> m.value, at |-> clock, ok |-> ok])]
           /\ ctl' = [ctl EXCEPT ![c].pc = IF ctl[c].kind = "daily" THEN after_send(ok)
                                           ELSE run_timer_after_send(ctl[c], ok),
                                 ![c].phase = next_phase(@),
                                 ![c].until = IF ctl[c].kind = "daily" THEN @
                                              ELSE clock + ctl[c].duration]
    /\ UNCHANGED <<clock, delays, fut, timer, orphans, rx, dispatched, reqs, db,
                   tu, win, outputs, hw, gpio_tx, cmdLimit>>

\* -------------------------------------------------------------- GpioManager

\* GpioManager::run: the actor task takes the Receiver.
GpioManager_run ==
    /\ rx = "created"
    /\ rx' = "running"
    /\ UNCHANGED <<clock, delays, ctl, fut, timer, orphans, cmds, chan, dispatched,
                   reqs, db, tu, win, actorVars>>

\* The GpioManager returned by GpioManager::new is dropped without run: the
\* Receiver goes with it, and the channel is closed.
GpioManager_drop ==
    /\ rx = "created"
    /\ rx' = "dropped"
    /\ chan' = <<>>
    /\ UNCHANGED <<clock, delays, ctl, fut, timer, orphans, cmds, dispatched,
                   reqs, db, tu, win, actorVars>>

next_message_Newest(q) == q[Len(q)]

\* What rx.recv() returns from a channel with pending messages: the oldest.
next_message(q) == Head(q)

pending_after_Kept(q) == q

\* What rx.recv() leaves pending.
pending_after(q) == Tail(q)

apply_out_Retry(m, id, openOk, setOk) ==
    LET open(ok) == [op |-> "open", output |-> m.output, value |-> FALSE,
                     ok |-> ok, id |-> id]
        set == [op |-> "set", output |-> m.output, value |-> m.value,
                ok |-> setOk, id |-> id]
    IN  IF openOk THEN <<open(TRUE), set>> ELSE <<open(FALSE), open(TRUE), set>>

\* The Out arm of the match, as the calls it makes on the hardware:
\* SysFsGpioOutput::open(outmsg.output) and, if that succeeded,
\* pin.set_value(outmsg.value); a failure of either ends the arm.
apply_out(m, id, openOk, setOk) ==
    LET open == [op |-> "open", output |-> m.output, value |-> FALSE,
                 ok |-> openOk, id |-> id]
        set == [op |-> "set", output |-> m.output, value |-> m.value,
                ok |-> setOk, id |-> id]
    IN  IF openOk THEN <<open, set>> ELSE <<open>>

after_turn_Fatal(openOk, setOk) == IF openOk /\ setOk THEN "running" ELSE "exited"

\* Neither arm returns or breaks: after the body the loop awaits rx.recv().
after_turn(openOk, setOk) == "running"

\* One turn of the actor's loop: rx.recv().await returns Some(message) and
\* the Out arm runs to its end (open and set_value are synchronous calls).
\* The handle is a local of the arm; the outputs map is not written.
recv(openOk, setOk) ==
    /\ rx = "running"
    /\ chan # <<>>
    /\ LET m == next_message(chan)
       IN  /\ dispatched' = Append(dispatched,
                                   [output |-> m.output, value |-> m.value,
                                    from |-> m.from, seq |-> m.seq, at |-> clock])
           /\ hw' = hw \o apply_out(m, m.seq, openOk, setOk)
    /\ chan' = pending_after(chan)
    /\ rx' = after_turn(openOk, setOk)
    /\ outputs' = outputs
    /\ UNCHANGED <<clock, delays, ctl, fut, timer, orphans, cmds, reqs, db,
                   tu, win, enq, gpio_tx, cmdLimit>>

recv_none_Empty(n, q) == q = <<>>

\* rx.recv() returns None: nothing is pending and every Sender was dropped.
recv_none(n, q) == n = 0 /\ q = <<>>

\* A task holds a clone of the Sender from its creation to its end.
HoldsTx(k) == Present(k) /\ k.pc \notin {"finished", "stopped"}

\* The Senders of the channel that exist: the one GpioManager::new returned
\* and the clone each task holds.
Senders ==
    (IF gpio_tx THEN 1 ELSE 0) + Cardinality({c \in Controllers : HoldsTx(ctl[c])})

\* The holder of the Sender GpioManager::new returned drops it.
drop_tx ==
    /\ gpio_tx
    /\ gpio_tx' = FALSE
    /\ UNCHANGED <<clock, delays, ctl, fut, timer, orphans, cmds, chan, rx,
                   dispatched, reqs, db, tu, win, enq, outputs, hw, cmdLimit>>

\* rx.recv().await returns None: the while-let loop and the actor task end,
\* and the Receiver is dropped.
actor_exit ==
    /\ rx = "running"
    /\ recv_none(Senders, chan)
    /\ rx' = "exited"
    /\ UNCHANGED <<clock, delays, ctl, fut, timer, orphans, cmds, chan,
                   dispatched, reqs, db, tu, win, actorVars>>

\* ----------------------------------------------------------------- requests

Str(a, b, c, d, e) == <<a, b, c, d, e>>

\* Form values of start_time: one that parses and one that is malformed.
ReqStarts == { Str("1", "2", ":", "0", "0"), Str("1", "2", "h", "0", "0") }

\* Form values of duration_on, in seconds: none, 2 s and 24 h.
ReqDurations == {0, 2, 86400}

FreeCtl == {c \in Controllers : ctl[c].pc = "absent"}

\* new_daily_form: from_newdaily, insert_interval_timer, DailyTimer::new and
\* run; each `?` returns the error before the steps after it.  dbOk is
\* whether sled's insert succeeds.  The model answers requests while a
\* controller slot is free.
new_daily_form(n, dbOk) ==
    /\ gpio_tx
    /\ Len(reqs) < MaxRequests
    /\ FreeCtl # {}
    /\ LET settings == from_newdaily(n)
           c == CHOOSE x \in FreeCtl : \A y \in FreeCtl : x <= y
           id == Len(reqs) + 1
       IN  IF settings.tag # "Ok"
           THEN /\ reqs' = Append(reqs, [form |-> n, result |-> settings.tag, ctl |-> 0])
                /\ UNCHANGED <<db, ctl>>
           ELSE IF ~dbOk
           THEN /\ reqs' = Append(reqs, [form |-> n, result |-> "Db", ctl |-> 0])
                /\ UNCHANGED <<db, ctl>>
           ELSE /\ reqs' = Append(reqs, [form |-> n, result |-> "Redirect", ctl |-> c])
                /\ db' = db \cup {[id |-> id, settings |-> settings]}
                /\ ctl' = [ctl EXCEPT ![c] =
                              run(IF settings.start_time = NoTime
                                  THEN local_time(clock) ELSE settings.start_time,
                                  476, TRUE, settings.duration_on)]
    /\ UNCHANGED <<clock, delays, fut, timer, orphans, cmds, chan, rx, dispatched,
                   tu, win, actorVars>>

\* A controller made through the library: DailyTimer::new(naive_now(),
\* GpioOutMessage { output: 7, value: true }, 2 s, tx).run().
run_now ==
    /\ gpio_tx
    /\ FreeCtl # {}
    /\ LET c == CHOOSE x \in FreeCtl : \A y \in FreeCtl : x <= y
       IN  ctl' = [ctl EXCEPT ![c] = run(local_time(clock), 7, TRUE, Secs(2))]
    /\ UNCHANGED <<clock, delays, fut, timer, orphans, cmds, chan, rx, dispatched,
                   reqs, db, tu, win, actorVars>>

\* run_timer spawned as a task: channel 7, value true, at the time-of-day of
\* the call, for 2 s.
run_timer_now ==
    /\ gpio_tx
    /\ FreeCtl # {}
    /\ LET c == CHOOSE x \in FreeCtl : \A y \in FreeCtl : x <= y
       IN  ctl' = [ctl EXCEPT ![c] = run_timer(local_time(clock), 7, TRUE, Secs(2))]
    /\ UNCHANGED <<clock, delays, fut, timer, orphans, cmds, chan, rx, dispatched,
                   reqs, db, tu, win, actorVars>>

\* tokio::time::sleep(duration) of a run_timer task is over.
sleep_done(c) ==
    /\ ctl[c].pc = "sleep"
    /\ ctl[c].until <= clock
    /\ ctl' = [ctl EXCEPT ![c].pc = "send"]
    /\ UNCHANGED <<clock, delays, fut, timer, orphans, cmds, chan, rx, dispatched,
                   reqs, db, tu, win, actorVars>>

\* -------------------------------------------------------------------- clock

Sleeping(c) == timer[c].pc = "sleeping" /\ timer[c].deadline > clock

\* A run_timer task is in tokio::time::sleep(duration).
Napping(c) == ctl[c].pc = "sleep" /\ ctl[c].until > clock

\* The instants at which a sleep in progress ends.
Deadlines ==
    {timer[c].deadline : c \in {x \in Controllers : Sleeping(x)}}
        \cup {ctl[c].until : c \in {x \in Controllers : Napping(x)}}

\* No task can take a step: every controller is parked (or waits for room in
\* the channel), every timer sleeps, and the actor waits for a message.
Quiescent ==
    /\ \A c \in Controllers :
          /\ \/ ctl[c].pc \in {"absent", "unused", "stopped", "finished"}
             \/ ctl[c].pc = "parked" /\ ~ctl[c].notified
             \/ Napping(c)
             \/ ctl[c].pc = "send" /\ ~Closed /\ Len(chan) >= Capacity
          /\ timer[c].pc \in {"none", "done", "panicked"} \/ Sleeping(c)
    /\ ~(rx = "running" /\ (chan # <<>> \/ Senders = 0))

\* A step that reads the clock can be taken: a timer task's time_until, a
\* send or a receipt (the model stamps both with the clock).
ClockRead ==
    \/ \E c \in Controllers : timer[c].pc = "spawned" \/ ctl[c].pc = "send"
    \/ rx = "running" /\ chan # <<>>

\* A scheduling delay: the clock moves on by 1 ms while a task is runnable.
\* A delay shows only in the next reading of the clock, so it is taken right
\* before one.
tick ==
    /\ delays < MaxDelay
    /\ ClockRead
    /\ clock' = clock + 1
    /\ delays' = delays + 1
    /\ UNCHANGED <<ctl, fut, timer, orphans, cmds, chan, rx, dispatched, reqs, db,
                   tu, win, actorVars>>

\* While every task waits, time passes until the first sleep ends.
advance ==
    /\ Quiescent
    /\ Deadlines # {}
    /\ clock' = (CHOOSE d \in Deadlines : \A e \in Deadlines : d <= e)
    /\ UNCHANGED <<delays, ctl, fut, timer, orphans, cmds, chan, rx, dispatched,
                   reqs, db, tu, win, actorVars>>

\* ------------------------------------------------------------ specification

Step(c) ==
    \/ TimeFuture_new(c)
    \/ TimeFuture_poll(c)
    \/ poll_return(c)
    \/ resume(c)
    \/ send(c)
    \/ timer_start(c)
    \/ timer_complete(c)
    \/ timer_wake(c)

Handle ==
    \E d \in ReqDurations, s \in ReqStarts, dbOk \in BOOLEAN :
        new_daily_form([duration_on |-> d, start_time |-> s], dbOk)

Next ==
    \/ \E c \in Controllers : Step(c)
    \/ Handle
    \/ run_now
    \/ GpioManager_run
    \/ GpioManager_drop
    \/ recv(TRUE, TRUE)
    \/ tick
    \/ advance

Spec == Init /\ [][Next]_vars

\* ---------------------------------------------------------------- TimeSpec
\* time_until on its own: every pair of a target and a clock reading taken
\* from a grid over the day, each grid point with its neighbours 1 ms and one
\* minute away.

GridTimes ==
    { (((i * Day) \div TimeGrid) + o + Day) % Day :
        i \in 0..(TimeGrid - 1), o \in {0 - 60000, 0 - 1, 0, 1} }

SysIdle ==
    /\ clock = Noon
    /\ delays = 0
    /\ ctl = [c \in Controllers |-> Unused]
    /\ fut = [c \in Controllers |-> NoFut]
    /\ timer = [c \in Controllers |-> NoTimer]
    /\ orphans = [c \in Controllers |-> 0]
    /\ cmds = [c \in Controllers |-> <<>>]
    /\ chan = <<>>
    /\ rx = "created"
    /\ dispatched = <<>>
    /\ reqs = <<>>
    /\ db = {}
    /\ enq = <<>>
    /\ outputs = {}
    /\ hw = <<>>
    /\ gpio_tx = TRUE
    /\ cmdLimit = MaxCmds

TimeInit ==
    /\ SysIdle
    /\ win = NoWin
    /\ \E t \in GridTimes, n \in GridTimes :
          tu = [target |-> t, now |-> n, result |-> 0, std |-> "Ok", done |-> FALSE]

\* The timer task's first two lines: time_until(time), then to_std().
tu_eval ==
    /\ ~tu.done
    /\ LET d == time_until(tu.target, tu.now)
       IN  tu' = [tu EXCEPT !.result = d, !.std = to_std(d), !.done = TRUE]
    /\ UNCHANGED <<sysVars, win>>

TimeNext == tu_eval

TimeSpec == TimeInit /\ [][TimeNext]_vars

\* C1: for every target and every clock reading, time_until returns a
\* duration d with 0 <= d < 24 h, so to_std() on it does not fail.
C1_TimeUntilInRange ==
    tu.done => (0 <= tu.result /\ tu.result < Day /\ tu.std = "Ok")

\* The wrapping case has been computed: a target one minute before now.
C1_Witness ==
    tu.done /\ tu.now - tu.target = 60000 /\ tu.result = Day - 60000

\* C2: time_until agrees with the reference: target - now for a later target,
\* 24 h - (now - target) for an earlier one, and 0 for target = now.
C2_TimeUntilReference ==
    tu.done =>
        /\ tu.target > tu.now => tu.result = tu.target - tu.now
        /\ tu.target < tu.now => tu.result = Day - (tu.now - tu.target)
        /\ tu.target = tu.now => tu.result = 0

\* time_until was evaluated with the target equal to the clock reading.
C2_Witness == tu.done /\ tu.target = tu.now /\ tu.result = 0

\* --------------------------------------------------------- claims on Spec

\* The messages of controller c the actor has received, in order.
DispatchedFrom(c) == SelectSeq(dispatched, LAMBDA m : m.from = c)

\* The value of the i-th command of a controller whose on-command has value v.
Alternating(v, i) == IF i % 2 = 1 THEN v ELSE ~v

\* C3: the commands a controller sends alternate on, off, on, ... starting
\* with on; the actor receives them in that order, and each cycle's on-command
\* is sent no later than its off-command.
C3_Alternation ==
    \A c \in Controllers :
        /\ \A i \in 1..Len(cmds[c]) :
              /\ cmds[c][i].value = Alternating(ctl[c].value, i)
              /\ i > 1 => cmds[c][i - 1].at <= cmds[c][i].at
        /\ \A i \in 1..Len(DispatchedFrom(c)) :
              /\ DispatchedFrom(c)[i].value = Alternating(ctl[c].value, i)
              /\ i > 1 => DispatchedFrom(c)[i - 1].at <= DispatchedFrom(c)[i].at
        /\ Len(DispatchedFrom(c)) <= Len(cmds[c])

\* A controller has sent on, off, on, and the actor has received on and off.
C3_Witness ==
    \E c \in Controllers :
        /\ Len(cmds[c]) >= 3
        /\ Len(DispatchedFrom(c)) >= 2
        /\ DispatchedFrom(c)[1].value
        /\ ~DispatchedFrom(c)[2].value

\* --------------------------------------------------------------- IdealSpec
\* The system under a clock that advances only while every task waits (no
\* scheduling delay) and with the Receiver alive.

IdealNext ==
    \/ \E c \in Controllers : Step(c)
    \/ Handle
    \/ run_now
    \/ GpioManager_run
    \/ recv(TRUE, TRUE)
    \/ advance

IdealSpec == Init /\ [][IdealNext]_vars

\* The first instant at or after the controller's creation whose time-of-day
\* is its start time.
FirstStart(k) == k.created + time_until(k.start_time, local_time(k.created))

\* When the i-th command of a controller is due: the k-th on-command at
\* T + k * 24 h, the k-th off-command at T + D + k * 24 h.
DueAt(k, i) ==
    FirstStart(k) + ((i - 1) \div 2) * Day + (IF i % 2 = 1 THEN 0 ELSE k.duration)

\* C4: every command of every controller is sent at the instant it is due,
\* for every duration_on the window construction accepts (0 < D <= 24 h).
C4_ExactSchedule ==
    \A c \in Controllers :
        \A i \in 1..Len(cmds[c]) :
            /\ cmds[c][i].ok
            /\ cmds[c][i].value = Alternating(ctl[c].value, i)
            /\ cmds[c][i].at = DueAt(ctl[c], i)

\* The same for the controllers whose duration_on is below 24 h.
C4_ExactScheduleBelowDay ==
    \A c \in Controllers :
        ctl[c].duration < Day =>
            \A i \in 1..Len(cmds[c]) :
                /\ cmds[c][i].ok
                /\ cmds[c][i].value = Alternating(ctl[c].value, i)
                /\ cmds[c][i].at = DueAt(ctl[c], i)

\* ---------------------------------------------------------------- LiveSpec
\* A controller made through the library, with the scheduling the runtime
\* gives: a task that can take a step is eventually run, the actor eventually
\* receives a pending message, and time passes while every task waits.

LiveNext ==
    \/ \E c \in Controllers : Step(c)
    \/ run_now
    \/ GpioManager_run
    \/ GpioManager_drop
    \/ recv(TRUE, TRUE)
    \/ tick
    \/ advance

Fairness ==
    /\ \A c \in Controllers : WF_vars(Step(c))
    /\ WF_vars(recv(TRUE, TRUE))
    /\ WF_vars(advance)

LiveSpec == Init /\ [][LiveNext]_vars /\ Fairness

\* The controller awaits its TimeFuture: between TimeFuture::new and the
\* poll that returns Ready.
Awaiting(c) == ctl[c].pc \in {"poll", "pending", "parked"}

\* completed is set, the task is parked, and no wake is pending or coming.
MissedWakeup(c) ==
    /\ fut[c].completed
    /\ ctl[c].pc = "parked"
    /\ ~ctl[c].notified
    /\ ~(timer[c].pc = "locked" /\ fut[c].waker)

\* C5: no missed wakeup.  No reachable state has completed set and the
\* awaiting task parked with no wake pending or coming, and a task awaiting a
\* TimeFuture eventually observes Ready.
C5_NoMissedWakeup ==
    /\ [](\A c \in Controllers : ~MissedWakeup(c))
    /\ \A c \in Controllers : Awaiting(c) ~> (ctl[c].pc = "ready")

\* The race itself: the task has stored its waker and is parked, the timer has
\* set completed and has yet to wake it.
C5_Witness ==
    \E c \in Controllers :
        /\ ctl[c].pc = "parked"
        /\ fut[c].completed
        /\ fut[c].waker
        /\ timer[c].pc = "locked"

\* The first instant at or after the creation of the TimeFuture of c whose
\* time-of-day is its target.
NextOccurrence(c) ==
    timer[c].created + time_until(timer[c].target, local_time(timer[c].created))

\* C18: a TimeFuture is not completed before the wall clock has reached the
\* next occurrence of its target after its creation, and it is completed in
\* the end, whatever delay the timer task starts with.
C18_NotBeforeTarget ==
    /\ [](\A c \in Controllers :
             (timer[c].pc # "none" /\ fut[c].completed) => clock >= NextOccurrence(c))
    /\ \A c \in Controllers : (timer[c].pc = "spawned") ~> fut[c].completed

\* A TimeFuture whose target was 2 s ahead at its creation is completed.
C18_Witness ==
    \E c \in Controllers :
        /\ timer[c].pc # "none"
        /\ fut[c].completed
        /\ NextOccurrence(c) = timer[c].created + Secs(2)
        /\ clock >= timer[c].created + Secs(2)

\* C20: a controller's wait targets are fixed.  stop_time is start_time +
\* duration_on modulo 24 h; the TimeFuture of a wait for on has the target
\* start_time and that of a wait for off the target stop_time, whenever the
\* earlier commands were sent; no step changes start_time, stop_time, the
\* channel or the on-value; and every command queued carries that channel.
C20_FixedTargets ==
    /\ [](\A c \in Controllers :
             Present(ctl[c]) =>
                 /\ ctl[c].stop_time = (ctl[c].start_time + ctl[c].duration) % Day
                 /\ Awaiting(c) =>
                       timer[c].target = (IF ctl[c].phase = "on" THEN ctl[c].start_time
                                          ELSE ctl[c].stop_time)
                 /\ \A i \in 1..Len(enq) :
                       enq[i].from = c => enq[i].output = ctl[c].output)
    /\ [][\A c \in Controllers :
             Present(ctl[c]) =>
                 /\ ctl'[c].start_time = ctl[c].start_time
                 /\ ctl'[c].stop_time = ctl[c].stop_time
                 /\ ctl'[c].duration = ctl[c].duration
                 /\ ctl'[c].output = ctl[c].output
                 /\ ctl'[c].value = ctl[c].value]_vars

\* A controller whose on-command was sent late and whose stop_time has
\* wrapped past midnight awaits stop_time.
C20_Witness ==
    \E c \in Controllers :
        /\ Len(cmds[c]) = 1
        /\ cmds[c][1].at > FirstStart(ctl[c])
        /\ ctl[c].stop_time < ctl[c].start_time
        /\ ctl[c].pc = "parked"
        /\ timer[c].pc = "sleeping"
        /\ timer[c].target = ctl[c].stop_time

\* C6: a TimeFuture resolves once and polling is idempotent.  A poll returns
\* Ready exactly when completed is set and Pending exactly when it is not (the
\* flag cannot change between the test and the return); completed is never
\* cleared on a shared state, only a new TimeFuture starts with it clear; and
\* no step of poll changes it.
C6_ResolvesOnce ==
    /\ [](\A c \in Controllers :
            /\ ctl[c].pc = "ready" => fut[c].completed
            /\ ctl[c].pc = "pending" => ~fut[c].completed)
    /\ [][\A c \in Controllers :
            /\ (fut[c].completed /\ ~fut'[c].completed)
                  => (ctl[c].pc = "new" /\ ctl'[c].pc = "poll")
            /\ (ctl[c].pc \in {"poll", "ready", "pending"} /\ ctl'[c].pc # ctl[c].pc)
                  => fut'[c].completed = fut[c].completed]_vars

\* A poll made after the timer task ended is about to return Ready, on a
\* shared state whose waker an earlier Pending poll had stored.
C6_Witness ==
    \E c \in Controllers :
        /\ ctl[c].pc = "ready"
        /\ fut[c].completed
        /\ timer[c].pc = "done"
        /\ Len(cmds[c]) >= 1

\* The end-to-end scenario: channel 7, start_time the time-of-day of the
\* creation, duration_on 2 s, created while the actor runs.
EndToEnd(k) ==
    /\ Present(k)
    /\ k.output = 7
    /\ k.live
    /\ k.start_time = local_time(k.created)
    /\ k.duration = Secs(2)

\* C7: within 2.5 s of the controller's creation the actor has received
\* exactly two commands from it, value true and then value false, whatever
\* delay lies between the creation and the timer task's reading of the clock.
C7_EndToEnd ==
    \A c \in Controllers :
        EndToEnd(ctl[c]) =>
            LET d == DispatchedFrom(c)
                limit == ctl[c].created + 2500
            IN  /\ clock >= limit =>
                      /\ Len(d) >= 2
                      /\ d[1].value /\ d[1].at <= limit
                      /\ ~d[2].value /\ d[2].at <= limit
                /\ \A i \in 1..Len(d) : d[i].at <= limit => i <= 2

\* C8: a failed send never stops a controller.  No controller terminates; a
\* send that failed is followed by the wait and the send of the other phase;
\* and once the Receiver is gone a controller keeps cycling (up to the MaxCmds
\* sends the model follows).
C8_SendFailureContinues ==
    /\ [](\A c \in Controllers :
            /\ ctl[c].pc # "stopped"
            /\ \A i \in 1..Len(cmds[c]) :
                  ~cmds[c][i].ok =>
                      IF i < Len(cmds[c])
                      THEN cmds[c][i + 1].value = ~cmds[c][i].value
                      ELSE /\ ctl[c].phase = (IF i % 2 = 1 THEN "off" ELSE "on")
                           /\ ctl[c].pc \in {"new", "poll", "ready", "pending",
                                             "parked", "send"})
    /\ \A c \in Controllers :
          (rx = "dropped" /\ Present(ctl[c])) ~> (Len(cmds[c]) = MaxCmds)

\* A controller whose on-send and off-send both failed is waiting again.
C8_Witness ==
    \E c \in Controllers :
        /\ Len(cmds[c]) >= 2
        /\ ~cmds[c][1].ok
        /\ ~cmds[c][2].ok
        /\ ctl[c].pc = "parked"

\* C9 as stated: every request with duration_on = 0 fails with
\* InvalidDuration and every request whose start_time does not parse fails
\* with TimeParsing, with no controller and nothing stored.
C9_AsStated ==
    \A i \in 1..Len(reqs) :
        LET r == reqs[i]
            parsed == parse_from_str(r.form.start_time) # NoTime
        IN  /\ r.form.duration_on = 0 => r.result = "InvalidDuration"
            /\ ~parsed => r.result = "TimeParsing"
            /\ r.result \in {"InvalidDuration", "TimeParsing"} =>
                  /\ r.ctl = 0
                  /\ \A e \in db : e.id # i

\* C9, amended: a request whose start_time does not parse fails with
\* TimeParsing, whatever its duration_on (the start time is parsed first), and
\* a request with duration_on = 0 whose start_time parses fails with
\* InvalidDuration; a request that failed has no controller and nothing
\* stored, and every controller of the handler belongs to a request that
\* succeeded.
C9_ConstructionErrors ==
    /\ \A i \in 1..Len(reqs) :
          LET r == reqs[i]
              parsed == parse_from_str(r.form.start_time) # NoTime
          IN  /\ ~parsed => r.result = "TimeParsing"
              /\ (r.form.duration_on = 0 /\ parsed) => r.result = "InvalidDuration"
              /\ r.result # "Redirect" =>
                    /\ r.ctl = 0
                    /\ \A e \in db : e.id # i
    /\ \A c \in Controllers :
          (Present(ctl[c]) /\ ctl[c].output = 476) =>
              \E i \in 1..Len(reqs) : reqs[i].ctl = c /\ reqs[i].result = "Redirect"
    /\ \A c \in Controllers : ~Present(ctl[c]) => cmds[c] = <<>>

\* A request with duration_on = 0 and a start time that parses was answered.
C9_Witness ==
    \E i \in 1..Len(reqs) :
        /\ reqs[i].form.duration_on = 0
        /\ reqs[i].result = "InvalidDuration"
        /\ db = {}

\* -------------------------------------------------------------- WindowSpec
\* The public constructors of IntervalSettings on their own, each called with
\* arguments from small sets; win holds the value the last call returned and
\* the duration_on it was called with.

\* Durations in ms: zero, the smallest positive one, 2 s, 24 h, and more.
WinDurations == {0, 1, Secs(2), Day, Day + 1}

WinStarts == {NoTime, 0, Noon}

\* Form values for from_newdaily: start times that parse, one out of range
\* and one malformed; durations in seconds up to one more than 24 h.
WinReqStarts ==
    { Str("1", "2", ":", "0", "0"), Str("0", "0", ":", "0", "0"),
      Str("2", "3", ":", "5", "9"), Str("2", "4", ":", "0", "0"),
      Str("1", "2", "h", "0", "0"), <<"7", ":", "5">> }

WinReqDurations == {0, 2, 86400, 86401}

WindowInit == SysInit /\ tu = NoTu /\ win = NoWin

call_new ==
    /\ \E on \in WinDurations, off \in WinDurations, st \in WinStarts :
          win' = [by |-> "new", on |-> on, value |-> IntervalSettings_new(on, off, st)]
    /\ UNCHANGED <<sysVars, tu>>

call_default ==
    /\ win' = [by |-> "default", on |-> 0, value |-> IntervalSettings_default]
    /\ UNCHANGED <<sysVars, tu>>

call_once_daily ==
    /\ \E on \in WinDurations, st \in WinStarts \ {NoTime} :
          win' = [by |-> "once_daily", on |-> on, value |-> once_daily(on, st)]
    /\ UNCHANGED <<sysVars, tu>>

call_daily_now ==
    /\ \E on \in WinDurations :
          win' = [by |-> "daily_now", on |-> on,
                  value |-> daily_now(on, local_time(clock))]
    /\ UNCHANGED <<sysVars, tu>>

call_from_newdaily ==
    /\ \E d \in WinReqDurations, s \in WinReqStarts :
          win' = [by |-> "from_newdaily", on |-> Secs(d),
                  value |-> from_newdaily([duration_on |-> d, start_time |-> s])]
    /\ UNCHANGED <<sysVars, tu>>

WindowNext ==
    \/ call_new
    \/ call_default
    \/ call_once_daily
    \/ call_daily_now
    \/ call_from_newdaily

WindowSpec == WindowInit /\ [][WindowNext]_vars

\* C10: every IntervalSettings value a public constructor returns has
\* duration_on > 0.
C10_PositiveDuration ==
    win.value.tag = "Ok" => win.value.duration_on > 0

\* The same for the constructors that validate: once_daily, daily_now and
\* from_newdaily.
C10_ValidatingConstructors ==
    (win.value.tag = "Ok" /\ win.by \in {"once_daily", "daily_now", "from_newdaily"})
        => win.value.duration_on > 0

\* A call of once_daily, daily_now or from_newdaily with duration_on > 0 and,
\* for from_newdaily, a start time that parsed.
ValidatedCall ==
    /\ win.by \in {"once_daily", "daily_now", "from_newdaily"}
    /\ win.on > 0
    /\ win.value.tag # "TimeParsing"

\* C11: every call with validated input returns a window, and its
\* duration_off is 24 h - duration_on, which is not negative.
C11_ConstructionCompletes ==
    ValidatedCall =>
        /\ win.value.tag = "Ok"
        /\ win.value.duration_on = win.on
        /\ win.value.duration_off = Day - win.on
        /\ win.value.duration_off >= 0

\* The same for the calls whose duration_on is at most 24 h.
C11_CompletesUpToDay ==
    (ValidatedCall /\ win.on <= Day) =>
        /\ win.value.tag = "Ok"
        /\ win.value.duration_on = win.on
        /\ win.value.duration_off = Day - win.on
        /\ win.value.duration_off >= 0

\* ------------------------------------------------------------- ChannelSpec
\* The channel under load: a schedule request for a window of 24 h starting
\* at 12:00, handled at 12:00.  stop_time is start_time, so its controller
\* sends without waiting, while the actor is started late or runs slowly.

ChannelInit ==
    /\ clock = Noon
    /\ delays = 0
    /\ ctl = [c \in Controllers |-> IF c = 1 THEN NoCtl ELSE Unused]
    /\ fut = [c \in Controllers |-> NoFut]
    /\ timer = [c \in Controllers |-> NoTimer]
    /\ orphans = [c \in Controllers |-> 0]
    /\ cmds = [c \in Controllers |-> <<>>]
    /\ chan = <<>>
    /\ rx = "created"
    /\ dispatched = <<>>
    /\ reqs = <<>>
    /\ db = {}
    /\ enq = <<>>
    /\ outputs = {}
    /\ hw = <<>>
    /\ gpio_tx = TRUE
    /\ cmdLimit = MaxBurst
    /\ PureIdle

AllDay == [duration_on |-> 86400, start_time |-> Str("1", "2", ":", "0", "0")]

ChannelNext ==
    \/ \E c \in Controllers : Step(c)
    \/ new_daily_form(AllDay, TRUE)
    \/ GpioManager_run
    \/ recv(TRUE, TRUE)

ChannelFairness ==
    /\ \A c \in Controllers : WF_vars(Step(c))
    /\ WF_vars(recv(TRUE, TRUE))

ChannelSpec == ChannelInit /\ [][ChannelNext]_vars /\ ChannelFairness

\* The messages the actor has received, as they were queued.
Received ==
    [i \in 1..Len(dispatched) |->
        [output |-> dispatched[i].output, value |-> dispatched[i].value,
         from |-> dispatched[i].from, seq |-> dispatched[i].seq]]

\* The controller is suspended in tx.send: the channel is full.
Suspended(c) == ctl[c].pc = "send" /\ ~Closed /\ Len(chan) = Capacity

\* C12: backpressure.  At most 32 messages are pending; while 32 are pending
\* no message is accepted; a controller suspended in send while the actor runs
\* gets its message queued after the actor has removed one; and every message
\* the channel accepted is pending or has been received by the actor.
C12_Backpressure ==
    /\ [](Len(chan) <= Capacity)
    /\ [](Received \o chan = enq)
    /\ [][Len(chan) = Capacity => (enq' = enq /\ cmds' = cmds)]_vars
    /\ \A c \in Controllers :
          (Suspended(c) /\ rx = "running")
              ~> (/\ ctl[c].pc = "new"
                  /\ Len(enq) > Capacity
                  /\ dispatched # <<>>
                  /\ cmds[c][Len(cmds[c])].ok
                  /\ enq[Len(enq)].from = c)

\* A controller is suspended in send with 32 messages pending, the actor
\* running.
C12_Witness ==
    \E c \in Controllers :
        Suspended(c) /\ rx = "running" /\ Len(enq) = Capacity /\ dispatched = <<>>

\* ---------------------------------------------------------------- PairSpec
\* Two controllers sharing one GpioManager: one made by a schedule request
\* (channel 476, 12:00, 2 s) and one through the library (channel 7, now,
\* 2 s), both at 12:00, so that their commands come due at the same instants.

PairInit ==
    /\ clock = Noon
    /\ delays = 0
    /\ ctl = [c \in Controllers |-> IF c <= 2 THEN NoCtl ELSE Unused]
    /\ fut = [c \in Controllers |-> NoFut]
    /\ timer = [c \in Controllers |-> NoTimer]
    /\ orphans = [c \in Controllers |-> 0]
    /\ cmds = [c \in Controllers |-> <<>>]
    /\ chan = <<>>
    /\ rx = "created"
    /\ dispatched = <<>>
    /\ reqs = <<>>
    /\ db = {}
    /\ enq = <<>>
    /\ outputs = {}
    /\ hw = <<>>
    /\ gpio_tx = TRUE
    /\ cmdLimit = MaxCmds
    /\ PureIdle

TwoSeconds == [duration_on |-> 2, start_time |-> Str("1", "2", ":", "0", "0")]

PairNext ==
    \/ \E c \in Controllers : Step(c)
    \/ new_daily_form(TwoSeconds, TRUE)
    \/ run_now
    \/ GpioManager_run
    \/ recv(TRUE, TRUE)
    \/ advance

PairFairness ==
    /\ \A c \in Controllers : WF_vars(Step(c))
    /\ WF_vars(recv(TRUE, TRUE))
    /\ WF_vars(advance)

PairSpec == PairInit /\ [][PairNext]_vars /\ PairFairness

\* C13: the actor dispatches the messages in the order of their arrival on
\* the channel.  The i-th message dispatched is the i-th message queued, so
\* none is dispatched twice and no two are reordered; a turn of the actor
\* dispatches exactly the next one; and while the actor runs every queued
\* message ends up dispatched.
C13_ArrivalOrder ==
    /\ [](/\ Len(dispatched) <= Len(enq)
          /\ \A i \in 1..Len(dispatched) :
                dispatched[i].seq = i /\ Received[i] = enq[i])
    /\ [][dispatched' # dispatched =>
            /\ Len(dispatched') = Len(dispatched) + 1
            /\ Received'[Len(dispatched')] = enq[Len(dispatched) + 1]
            /\ enq' = enq]_vars
    /\ <>[](rx = "running" => Received = enq)

\* The two controllers' commands arrived interleaved, the second controller's
\* on-command first and its off-command last, and the actor has dispatched
\* all four.
C13_Witness ==
    /\ Len(dispatched) >= 4
    /\ dispatched[1].from = 2
    /\ dispatched[2].from = 1
    /\ dispatched[3].from = 1
    /\ dispatched[4].from = 2

\* ------------------------------------------------------- claims on the actor

\* The successful opens of channel o among the calls made on the hardware.
Opens(o) == {i \in 1..Len(hw) : hw[i].op = "open" /\ hw[i].ok /\ hw[i].output = o}

\* C14: once the actor has opened channel o for an Output command, outputs
\* has an entry for o, and the channel is opened at most once.
C14_HandleCaching ==
    \A i \in 1..Len(hw) :
        (hw[i].op = "open" /\ hw[i].ok) =>
            /\ hw[i].output \in outputs
            /\ Cardinality(Opens(hw[i].output)) <= 1

\* No entry is ever removed from outputs.
C14_NeverRemoved == [][outputs \subseteq outputs']_vars

\* --------------------------------------------------------------- FaultSpec
\* A controller made through the library at 12:00 and an actor whose
\* hardware may fail: every open and every set_value succeeds or not.

FaultInit ==
    /\ clock = Noon
    /\ delays = 0
    /\ ctl = [c \in Controllers |-> IF c = 1 THEN NoCtl ELSE Unused]
    /\ fut = [c \in Controllers |-> NoFut]
    /\ timer = [c \in Controllers |-> NoTimer]
    /\ orphans = [c \in Controllers |-> 0]
    /\ cmds = [c \in Controllers |-> <<>>]
    /\ chan = <<>>
    /\ rx = "created"
    /\ dispatched = <<>>
    /\ reqs = <<>>
    /\ db = {}
    /\ enq = <<>>
    /\ outputs = {}
    /\ hw = <<>>
    /\ gpio_tx = TRUE
    /\ cmdLimit = MaxCmds
    /\ PureIdle

recv_any == \E openOk \in BOOLEAN, setOk \in BOOLEAN : recv(openOk, setOk)

FaultNext ==
    \/ \E c \in Controllers : Step(c)
    \/ run_now
    \/ GpioManager_run
    \/ recv_any
    \/ advance

FaultFairness ==
    /\ \A c \in Controllers : WF_vars(Step(c))
    /\ WF_vars(recv_any)
    /\ WF_vars(advance)

FaultSpec == FaultInit /\ [][FaultNext]_vars /\ FaultFairness

\* The calls made on the hardware for the id-th message queued.
CallsFor(id) == SelectSeq(hw, LAMBDA e : e.id = id)

\* C15: a hardware fault is local to one command.  For each message the
\* actor makes one open and, only if that succeeded, one set_value, so a
\* failed call is the last one for its message; the actor does not terminate;
\* and every message queued, before or after a failure, is dispatched.
C15_FaultIsLocal ==
    /\ [](\A id \in 1..Len(dispatched) :
             LET calls == CallsFor(id)
             IN  /\ Len(calls) \in 1..2
                 /\ calls[1].op = "open"
                 /\ Len(calls) = 2 <=> calls[1].ok
                 /\ Len(calls) = 2 => calls[2].op = "set")
    /\ [][rx = "running" => rx' = "running"]_vars
    /\ <>[](rx = "running" => Received = enq)

\* The open for the first message failed, the set_value for the second
\* failed, and the third message was dispatched and applied.
C15_Witness ==
    /\ Len(dispatched) >= 3
    /\ Len(hw) = 5
    /\ ~hw[1].ok /\ hw[1].op = "open" /\ hw[1].id = 1
    /\ ~hw[3].ok /\ hw[3].op = "set" /\ hw[3].id = 2
    /\ hw[5].ok /\ hw[5].op = "set" /\ hw[5].id = 3

\* The arrival numbers of the messages applied to the hardware, in the order
\* of their application (every application starts with an open).
Applied ==
    LET opens == SelectSeq(hw, LAMBDA e : e.op = "open")
    IN  [k \in 1..Len(opens) |-> opens[k].id]

\* C16: writes are serialized by the actor.  A call on the hardware is made
\* only in a turn of the actor, one message per turn, never in a step of a
\* controller; the calls for one message are not interleaved with those for
\* another; and the messages are applied in the order of their arrival, each
\* with its own channel and value.
C16_WriteSerialization ==
    /\ [](/\ \A k \in 1..Len(Applied) : Applied[k] = k
          /\ \A i \in 1..Len(hw) :
                /\ hw[i].id \in 1..Len(enq)
                /\ hw[i].output = enq[hw[i].id].output
                /\ hw[i].op = "set" =>
                      /\ i > 1
                      /\ hw[i - 1].op = "open"
                      /\ hw[i - 1].id = hw[i].id
                      /\ hw[i].value = enq[hw[i].id].value)
    /\ [][hw' # hw =>
            /\ rx = "running"
            /\ Len(dispatched') = Len(dispatched) + 1
            /\ Len(Applied') = Len(Applied) + 1
            /\ ctl' = ctl /\ cmds' = cmds /\ enq' = enq]_vars

\* The on-commands of two controllers, for two channels, were pending
\* together and have been applied one after the other.
C16_Witness ==
    /\ Len(hw) >= 4
    /\ hw[2].op = "set" /\ hw[4].op = "set"
    /\ hw[2].output # hw[4].output
    /\ Len(dispatched) = 2
    /\ dispatched[1].at = dispatched[2].at

\* ------------------------------------------------------------ ShutdownSpec
\* The end of the actor: a task made through the library at 12:00 (a
\* controller, or run_timer), and the holder of the original Sender dropping
\* it at any moment.

ShutdownInit == FaultInit

ShutdownNext ==
    \/ \E c \in Controllers : Step(c)
    \/ \E c \in Controllers : sleep_done(c)
    \/ run_now
    \/ run_timer_now
    \/ GpioManager_run
    \/ recv(TRUE, TRUE)
    \/ drop_tx
    \/ actor_exit
    \/ advance

ShutdownSpec == ShutdownInit /\ [][ShutdownNext]_vars

\* C17: the actor's loop ends only when every Sender has been dropped.  While
\* the original Sender or a task's clone exists the actor does not end; and
\* when it has ended, every message ever queued has been dispatched and
\* applied, and no message is queued afterwards.
C17_ExitsWhenSendersGone ==
    /\ [](rx = "exited" =>
            /\ Senders = 0
            /\ chan = <<>>
            /\ Received = enq
            /\ Len(Applied) = Len(enq))
    /\ [][(rx = "running" /\ rx' # "running") =>
            (Senders = 0 /\ rx' = "exited" /\ Received = enq)]_vars
    /\ [][rx = "exited" => (rx' = "exited" /\ enq' = enq)]_vars

\* The actor has ended after dispatching the two commands of a run_timer
\* task that has returned, the original Sender having been dropped.
C17_Witness ==
    /\ rx = "exited"
    /\ Len(dispatched) = 2
    /\ ~gpio_tx
    /\ \E c \in Controllers : ctl[c].pc = "finished"

\* --------------------------------------------------------------- DelaySpec
\* A controller made through the library at 12:00 (start_time now, 2 s)
\* whose on-command is held up between the end of the start-time wait and
\* the send: by the scheduler, or by a full channel.

\* How long a send may be held up: less than duration_on, and more.
StallTimes == {Secs(1), Secs(3)}

\* The on-command of a controller is about to be sent, and time passes first.
stall ==
    /\ delays < MaxDelay
    /\ \E c \in Controllers : ctl[c].pc = "send" /\ ctl[c].phase = "on"
    /\ \E d \in StallTimes : clock' = clock + d
    /\ delays' = delays + 1
    /\ UNCHANGED <<ctl, fut, timer, orphans, cmds, chan, rx, dispatched, reqs, db,
                   tu, win, actorVars>>

DelayInit == FaultInit

DelayNext ==
    \/ \E c \in Controllers : Step(c)
    \/ run_now
    \/ GpioManager_run
    \/ recv(TRUE, TRUE)
    \/ stall
    \/ advance

DelaySpec == DelayInit /\ [][DelayNext]_vars

\* How long after an occurrence of its start_time the controller's i-th
\* command was sent.
SentLate(c, i) == (cmds[c][i].at - FirstStart(ctl[c])) % Day

\* C19: whatever the delay of an on-command, the off-command that follows it
\* is sent at most duration_on later.
C19_DelayShortens ==
    \A c \in Controllers :
        \A i \in 1..Len(cmds[c]) :
            (i % 2 = 1 /\ i < Len(cmds[c])) =>
                cmds[c][i + 1].at - cmds[c][i].at <= ctl[c].duration

\* The same for the on-commands delayed by less than duration_on.
C19_ShortDelayShortens ==
    \A c \in Controllers :
        \A i \in 1..Len(cmds[c]) :
            (i % 2 = 1 /\ i < Len(cmds[c]) /\ SentLate(c, i) < ctl[c].duration) =>
                /\ cmds[c][i + 1].at - cmds[c][i].at <= ctl[c].duration
                /\ cmds[c][i + 1].at - cmds[c][i].at = ctl[c].duration - SentLate(c, i)

\* --------------------------------------------------- claims on TimeFuture

\* The step is the timer task of c taking the stored waker, at the end of the
\* critical section in which it set completed.
TakesWaker(c) ==
    /\ timer[c].pc = "locked"
    /\ timer'[c].pc = "done"
    /\ fut[c].mutex = "timer"
    /\ fut[c].completed
    /\ fut'[c].completed

Uncompleted(c) ==
    orphans[c] + (IF timer[c].pc \in {"spawned", "sleeping", "locked"} THEN 1 ELSE 0)

\* C22: a controller has at most one timer task that has not ended.  No
\* timer task is left running when the next TimeFuture is created: at that
\* step the previous timer task has ended with completed set, and the send
\* that followed its wait has returned, not before the end of its sleep.
C22_OneTimerTask ==
    /\ [](\A c \in Controllers : Uncompleted(c) <= 1 /\ orphans[c] = 0)
    /\ [][\A c \in Controllers :
             (ctl[c].pc = "new" /\ ctl'[c].pc = "poll") =>
                 /\ timer'[c].pc = "spawned"
                 /\ timer[c].pc \in {"none", "done"}
                 /\ timer[c].pc = "none" <=> cmds[c] = <<>>
                 /\ timer[c].pc = "done" =>
                       /\ fut[c].completed
                       /\ cmds[c][Len(cmds[c])].at >= timer[c].deadline]_vars

\* A controller is in its third wait: two timer tasks have ended and the
\* third is the only one running.
C22_Witness ==
    \E c \in Controllers :
        /\ Len(cmds[c]) = 2
        /\ timer[c].pc = "sleeping"
        /\ timer[c].deadline > clock
        /\ Uncompleted(c) = 1

====
